---- MODULE Spec2Model ----
(***************************************************************************)
(* The HTTP service of src/main.rs: the Numeric Registry                   *)
(* (Arc<RwLock<AppState2>>, GET/POST /numbers) with its request tasks, and *)
(* the stateless handlers look_it_up and health_check.                     *)
(***************************************************************************)
EXTENDS Integers, Sequences, FiniteSets, TLC

\* Number of request tasks in flight at once (the server itself has no limit).
NumTasks == 3
\* Cap on the appends the model accepts (the registry itself is unbounded).
MaxAppends == 2

\* Range of i32 (numbers: Vec<i32>, Json<i32>, Path<i32>).
I32_MAX == 2147483647
I32_MIN == -I32_MAX - 1

Tasks == 1..NumTasks

VARIABLES
    numbers,    \* AppState2.numbers
    rdHeld,     \* tasks owning an RwLockReadGuard
    wrHeld,     \* tasks owning the RwLockWriteGuard
    waiters,    \* the lock's first-in first-out queue of suspended tasks
    pc,         \* each task's position in its handler
    req,        \* the body of each task's current request
    seen,       \* history: the registry as the task found it (read: when it
                \* got its guard; append: just before its push)
    pushed,     \* history: pushes done for the task's current request
    completed,  \* history: per value, the appends answered with 200
    out,        \* what the step just taken sent or dropped
    demo        \* last exchange of each task with /lookup or /healthcheck

vars == <<numbers, rdHeld, wrHeld, waiters, pc, req, seen, pushed, completed,
          out, demo>>

regVars == <<numbers, rdHeld, wrHeld, waiters, pc, req, seen, pushed,
             completed, out>>

----------------------------------------------------------------------------
\* Texts (request bodies, path segments) are sequences of characters.

DigitChars == <<"0", "1", "2", "3", "4", "5", "6", "7", "8", "9">>

IsDigit(c) == \E i \in 1..10 : DigitChars[i] = c

DigitOf(c) == (CHOOSE i \in 1..10 : DigitChars[i] = c) - 1

AllDigits(s) == s # <<>> /\ \A i \in 1..Len(s) : IsDigit(s[i])

\* The digits of an integer read left to right into an i32, kept negative
\* so that the whole range fits; "ok" is FALSE once the range is left.
RECURSIVE ReadDigits(_, _)
ReadDigits(s, acc) ==
    IF s = <<>> THEN [ok |-> TRUE, neg |-> acc]
    ELSE LET d == DigitOf(Head(s)) IN
         IF acc < I32_MIN \div 10 + 1
            \/ (acc = I32_MIN \div 10 + 1 /\ d > 8)
         THEN [ok |-> FALSE, neg |-> 0]
         ELSE ReadDigits(Tail(s), acc * 10 - d)

\* A decimal integer text as an i32: [ok, val].
ReadI32(negative, digits) ==
    LET r == ReadDigits(digits, 0) IN
    IF ~r.ok THEN [ok |-> FALSE, val |-> 0]
    ELSE IF negative THEN [ok |-> TRUE, val |-> r.neg]
    ELSE IF r.neg = I32_MIN THEN [ok |-> FALSE, val |-> 0]
    ELSE [ok |-> TRUE, val |-> -r.neg]

\* A JSON integer literal: an optional minus sign, then digits with no
\* leading zero.
IsJsonInteger(s) ==
    LET ds == IF s # <<>> /\ Head(s) = "-" THEN Tail(s) ELSE s IN
    AllDigits(ds) /\ (Len(ds) > 1 => Head(ds) # "0")

\* A JSON string literal (its content is not looked into).
IsJsonString(s) == Len(s) >= 2 /\ s[1] = "\"" /\ s[Len(s)] = "\""

\* serde_json::from_slice::<i32> on a request body: [res, val] where res is
\* "ok", "syntax" (not JSON) or "data" (JSON that is no i32).
ParseI32(s) ==
    IF IsJsonInteger(s)
    THEN LET r == IF Head(s) = "-" THEN ReadI32(TRUE, Tail(s))
                  ELSE ReadI32(FALSE, s) IN
         IF r.ok THEN [res |-> "ok", val |-> r.val]
         ELSE [res |-> "data", val |-> 0]
    ELSE IF IsJsonString(s) THEN [res |-> "data", val |-> 0]
    ELSE [res |-> "syntax", val |-> 0]

\* The status of the Json<i32> extractor's rejection: JsonSyntaxError is
\* 400 Bad Request, JsonDataError is 422 Unprocessable Entity.
JsonRejectionStatus(s) ==
    IF ParseI32(s).res = "syntax" THEN 400 ELSE 422

\* Request bodies: 5 and 7 are well formed; the others are malformed: an
\* integer outside i32, a JSON value of another type, text that is not JSON.
Bodies ==
    { <<"5">>, <<"7">>,
      <<"2", "1", "4", "7", "4", "8", "3", "6", "4", "8">>,
      <<"\"", "a", "\"">>,
      <<"x">> }

AppendValues == {ParseI32(b).val : b \in {c \in Bodies : ParseI32(c).res = "ok"}}

----------------------------------------------------------------------------
\* Sequences.

IsPrefix(s, t) == Len(s) <= Len(t) /\ \A i \in 1..Len(s) : s[i] = t[i]

CountIn(s, v) == Cardinality({i \in 1..Len(s) : s[i] = v})

Without(q, t) == SelectSeq(q, LAMBDA u : u # t)

Position(q, t) == CHOOSE i \in 1..Len(q) : q[i] = t

InQueue(q, t) == \E i \in 1..Len(q) : q[i] = t

\* Vec::push (mutant: the slot of the last element is overwritten).
PushValueLossy(s, v) ==
    IF s = <<>> THEN <<v>> ELSE [s EXCEPT ![Len(s)] = v]

\* Vec::push (mutant: the value goes to the front).
PushValueFront(s, v) == <<v>> \o s

\* Vec::push
PushValue(s, v) == Append(s, v)

----------------------------------------------------------------------------
\* tokio::sync::RwLock: fair, first-in first-out, write-preferring.

\* A read guard can be handed out: no write guard is out.
ReadOk(wr) == wr = {}

\* Mutant: a writer is let in while read guards are out.
WriteOkBesideReaders(rd, wr) == wr = {}

\* Mutant: a writer is let in beside another writer.
WriteOkBesideWriter(rd, wr) == rd = {}

\* The write guard can be handed out: no guard at all is out.
WriteOk(rd, wr) == rd = {} /\ wr = {}

\* Mutant: a reader overtakes the tasks that are queued.
CanReadNowBarging(wr, q) == ReadOk(wr)

\* state.read().await, first poll: the guard is taken at once only when
\* nothing is queued ahead.
CanReadNow(wr, q) == q = <<>> /\ ReadOk(wr)

\* state.write().await, first poll.
CanWriteNow(rd, wr, q) == q = <<>> /\ WriteOk(rd, wr)

\* Mutant: a release wakes at most the task at the head of the queue.
WakeHeadOnly(q, rd, wr) ==
    IF q = <<>> THEN [q |-> q, rd |-> rd, wr |-> wr]
    ELSE IF pc[Head(q)] = "wait_r" /\ ReadOk(wr)
         THEN [q |-> Tail(q), rd |-> rd \cup {Head(q)}, wr |-> wr]
    ELSE IF pc[Head(q)] = "wait_w" /\ WriteOk(rd, wr)
         THEN [q |-> Tail(q), rd |-> rd, wr |-> {Head(q)}]
    ELSE [q |-> q, rd |-> rd, wr |-> wr]

\* What a released guard hands on: the queue is served from its head, in
\* order, until its head cannot be served.
RECURSIVE Wake(_, _, _)
Wake(q, rd, wr) ==
    IF q = <<>> THEN [q |-> q, rd |-> rd, wr |-> wr]
    ELSE IF pc[Head(q)] = "wait_r" /\ ReadOk(wr)
         THEN Wake(Tail(q), rd \cup {Head(q)}, wr)
    ELSE IF pc[Head(q)] = "wait_w" /\ WriteOk(rd, wr)
         THEN Wake(Tail(q), rd, {Head(q)})
    ELSE [q |-> q, rd |-> rd, wr |-> wr]

\* The lock after a change (a guard dropped, a waiter gone): the queue is
\* served, and task t is through.  A task served while suspended owns its
\* guard from then on ("r_granted", "w_granted").
Settle(rd0, wr0, q0, t) ==
    LET w == Wake(q0, rd0, wr0) IN
    /\ waiters' = w.q
    /\ rdHeld' = w.rd
    /\ wrHeld' = w.wr
    /\ pc' = [u \in Tasks |->
                IF u = t THEN "idle"
                ELSE IF u \in w.rd \ rd0 THEN "r_granted"
                ELSE IF u \in w.wr \ wr0 THEN "w_granted"
                ELSE pc[u]]
    /\ seen' = [u \in Tasks |->
                  IF u = t THEN <<>>
                  ELSE IF u \in w.rd \ rd0 THEN numbers
                  ELSE seen[u]]
    /\ req' = [req EXCEPT ![t] = <<>>]
    /\ pushed' = [pushed EXCEPT ![t] = 0]

----------------------------------------------------------------------------
\* Requests and responses.

\* What a step sent: event is "get" or "post" (a 200 response of
\* /numbers), "reject" (the extractor's rejection), "cancel" (the task was
\* dropped, nothing sent) or "none".
\* at is the position of the task (t) when the step began, body its request
\* body, json the array sent, seen and pushed the task's history.
Sent(e, t, b, st, js) ==
    [event |-> e, at |-> pc[t], body |-> b, status |-> st, json |-> js,
     seen |-> seen[t], pushed |-> pushed[t]]

NoOut ==
    [event |-> "none", at |-> "idle", body |-> <<>>, status |-> 0,
     json |-> <<>>, seen |-> <<>>, pushed |-> 0]

ReadCS == {"r_locked", "r_granted"}
WriteCS == {"w_locked", "w_granted", "w_pushed"}
Suspended == {"wait_r", "wait_w", "r_granted", "w_granted"}

\* Appends accepted so far that have not pushed yet.
PendingAppends == {t \in Tasks : pc[t] \in {"wait_w", "w_granted", "w_locked"}}

\* An exchange with a stateless handler: the input, whether a response was
\* written, and the response.
Exchange(k, i, re, st, n, f, js, m) ==
    [kind |-> k, input |-> i, responded |-> re, status |-> st, number |-> n,
     found |-> f, jstatus |-> js, message |-> m]

NoDemo == Exchange("none", <<>>, FALSE, 0, 0, FALSE, "", "")

Init ==
    /\ numbers = <<>>
    /\ rdHeld = {}
    /\ wrHeld = {}
    /\ waiters = <<>>
    /\ pc = [t \in Tasks |-> "idle"]
    /\ req = [t \in Tasks |-> <<>>]
    /\ seen = [t \in Tasks |-> <<>>]
    /\ pushed = [t \in Tasks |-> 0]
    /\ completed = [v \in AppendValues |-> 0]
    /\ out = NoOut
    /\ demo = [t \in Tasks |-> NoDemo]

\* GET /numbers, up to the first poll of state.read().await.
GetNumbers(t) ==
    /\ pc[t] = "idle"
    /\ IF CanReadNow(wrHeld, waiters)
       THEN /\ rdHeld' = rdHeld \cup {t}
            /\ pc' = [pc EXCEPT ![t] = "r_locked"]
            /\ seen' = [seen EXCEPT ![t] = numbers]
            /\ UNCHANGED waiters
       ELSE /\ waiters' = Append(waiters, t)
            /\ pc' = [pc EXCEPT ![t] = "wait_r"]
            /\ UNCHANGED <<rdHeld, seen>>
    /\ out' = NoOut
    /\ UNCHANGED <<numbers, wrHeld, req, pushed, completed, demo>>

\* GET /numbers: numbers.clone() under the read guard, the guard dropped.
GetNumbersReturn(t) ==
    /\ pc[t] \in ReadCS
    /\ out' = Sent("get", t, <<>>, 200, numbers)
    /\ Settle(rdHeld \ {t}, wrHeld, waiters, t)
    /\ UNCHANGED <<numbers, completed, demo>>

\* POST /numbers with a body the Json<i32> extractor rejects: the handler
\* is never called.
PostNumbersRejected(t, b) ==
    /\ pc[t] = "idle"
    /\ ParseI32(b).res # "ok"
    /\ out' = Sent("reject", t, b, JsonRejectionStatus(b), <<>>)
    /\ UNCHANGED <<numbers, rdHeld, wrHeld, waiters, pc, req, seen, pushed,
                   completed, demo>>

\* POST /numbers with an i32 body, up to the first poll of
\* state.write().await.
PostNumbers(t, b) ==
    /\ pc[t] = "idle"
    /\ ParseI32(b).res = "ok"
    /\ Len(numbers) + Cardinality(PendingAppends) < MaxAppends
    /\ req' = [req EXCEPT ![t] = b]
    /\ IF CanWriteNow(rdHeld, wrHeld, waiters)
       THEN /\ wrHeld' = wrHeld \cup {t}
            /\ pc' = [pc EXCEPT ![t] = "w_locked"]
            /\ UNCHANGED waiters
       ELSE /\ waiters' = Append(waiters, t)
            /\ pc' = [pc EXCEPT ![t] = "wait_w"]
            /\ UNCHANGED wrHeld
    /\ out' = NoOut
    /\ UNCHANGED <<numbers, rdHeld, seen, pushed, completed, demo>>

\* add_number: writable_state.numbers.push(new_number)
Push(t) ==
    /\ pc[t] \in {"w_locked", "w_granted"}
    /\ seen' = [seen EXCEPT ![t] = numbers]
    /\ numbers' = PushValue(numbers, ParseI32(req[t]).val)
    /\ pushed' = [pushed EXCEPT ![t] = @ + 1]
    /\ pc' = [pc EXCEPT ![t] = "w_pushed"]
    /\ out' = NoOut
    /\ UNCHANGED <<rdHeld, wrHeld, waiters, req, completed, demo>>

\* add_number: Json(writable_state.numbers.clone()), the write guard dropped.
AddNumberReturn(t) ==
    /\ pc[t] = "w_pushed"
    /\ out' = Sent("post", t, req[t], 200, numbers)
    /\ completed' = [completed EXCEPT ![ParseI32(req[t]).val] = @ + 1]
    /\ Settle(rdHeld, wrHeld \ {t}, waiters, t)
    /\ UNCHANGED <<numbers, demo>>

\* Mutant: a task dropped after it was handed a guard keeps the guard.
CancelLeak(t) ==
    /\ pc[t] \in Suspended
    /\ out' = Sent("cancel", t, req[t], 0, <<>>)
    /\ Settle(rdHeld, wrHeld, Without(waiters, t), t)
    /\ UNCHANGED <<numbers, completed, demo>>

\* The request's task is dropped (its client is gone) at its one
\* suspension point, the .await on the lock: it leaves the queue, or gives
\* back the guard it was handed and never used.
Cancel(t) ==
    /\ pc[t] \in Suspended
    /\ out' = Sent("cancel", t, req[t], 0, <<>>)
    /\ Settle(rdHeld \ {t}, wrHeld \ {t}, Without(waiters, t), t)
    /\ UNCHANGED <<numbers, completed, demo>>

\* The registry under the requests that reach its handlers.
Next ==
    \E t \in Tasks :
        \/ GetNumbers(t)
        \/ GetNumbersReturn(t)
        \/ \E b \in Bodies : PostNumbers(t, b)
        \/ Push(t)
        \/ AddNumberReturn(t)
        \/ Cancel(t)

Spec == Init /\ [][Next]_vars

\* The same with the requests the extractor turns away.
NextAll ==
    \/ Next
    \/ \E t \in Tasks : \E b \in Bodies : PostNumbersRejected(t, b)

SpecAll == Init /\ [][NextAll]_vars

\* What task t does once it owns a guard.
Proceed(t) == Push(t) \/ AddNumberReturn(t) \/ GetNumbersReturn(t)

\* The runtime polls every task that can run, and the code between taking
\* a guard and dropping it has no .await: a task that owns a guard pushes
\* and returns.  Nothing obliges a client to send a request, or to go away.
Fairness == \A t \in Tasks : WF_vars(Proceed(t))

LiveSpec == Init /\ [][Next]_vars /\ Fairness

----------------------------------------------------------------------------
\* The stateless handlers.

\* Path segments of GET /lookup/:number.
LookupPaths ==
    { <<"0">>, <<"1">>, <<"2">>, <<"3">>,
      <<"-", "1">>, <<"-", "2">>, <<"-", "3">>,
      <<"2", "1", "4", "7", "4", "8", "3", "6", "4", "7">>,
      <<"-", "2", "1", "4", "7", "4", "8", "3", "6", "4", "8">>,
      <<"2", "1", "4", "7", "4", "8", "3", "6", "4", "8">>,
      <<"a", "b", "c">> }

\* Path<i32>, that is str::parse::<i32>: an optional sign, then digits.
ParsePathI32(s) ==
    LET signed == s # <<>> /\ Head(s) \in {"-", "+"}
        ds == IF signed THEN Tail(s) ELSE s
    IN  IF AllDigits(ds) THEN ReadI32(signed /\ Head(s) = "-", ds)
        ELSE [ok |-> FALSE, val |-> 0]

\* Rust's % on i32 with a positive divisor: the remainder of the division
\* that truncates, so it takes the sign of the dividend (-3 % 2 is -1).
RustRem(a, b) ==
    LET m == a % b IN IF a < 0 /\ m # 0 THEN m - b ELSE m

\* What the Redis server does to the probe of health_check.
Probes == {"ok", "no_connection", "set_failed"}

\* GET /lookup/:number: the Path<i32> extractor (400 when the segment is
\* no i32), then look_it_up.
LookItUp(t, s) ==
    /\ LET r == ParsePathI32(s) IN
       demo' = [demo EXCEPT ![t] =
           IF ~r.ok THEN Exchange("lookup", s, TRUE, 400, 0, FALSE, "", "")
           ELSE IF RustRem(r.val, 2) = 1
                THEN Exchange("lookup", s, TRUE, 200, r.val, TRUE, "", "")
           ELSE Exchange("lookup", s, TRUE, 404, r.val, FALSE, "", "")]
    /\ UNCHANGED regVars

\* GET /healthcheck: both results are unwrapped with expect, so a failed
\* probe panics the request's task and no response is written.
HealthCheck(t, probe) ==
    /\ demo' = [demo EXCEPT ![t] =
           IF probe = "ok"
           THEN Exchange("health", <<probe>>, TRUE, 200, 0, FALSE, "ok2",
                         "API Services")
           ELSE Exchange("health", <<probe>>, FALSE, 0, 0, FALSE, "", "")]
    /\ UNCHANGED regVars

NextDemo ==
    \E t \in Tasks :
        \/ \E s \in LookupPaths : LookItUp(t, s)
        \/ \E probe \in Probes : HealthCheck(t, probe)

SpecDemo == Init /\ [][NextDemo]_vars

----------------------------------------------------------------------------
\* Properties.

TypeOK ==
    /\ numbers \in Seq(AppendValues)
    /\ rdHeld \subseteq Tasks
    /\ wrHeld \subseteq Tasks
    /\ \A i \in 1..Len(waiters) : waiters[i] \in Tasks
    /\ \A t \in Tasks :
          pc[t] \in {"idle", "wait_r", "wait_w"} \cup ReadCS \cup WriteCS

\* The lock's books agree with the tasks' positions.
LockConsistent ==
    /\ rdHeld = {t \in Tasks : pc[t] \in ReadCS}
    /\ wrHeld = {t \in Tasks : pc[t] \in WriteCS}
    /\ \A t \in Tasks : InQueue(waiters, t) <=> pc[t] \in {"wait_r", "wait_w"}

InWriteCS(t) == pc[t] \in WriteCS
InReadCS(t) == pc[t] \in ReadCS

\* Values pushed by appends that have not returned yet.
InFlight(v) ==
    Cardinality({t \in Tasks : pc[t] = "w_pushed" /\ ParseI32(req[t]).val = v})

RECURSIVE SumOver(_, _)
SumOver(f, S) ==
    IF S = {} THEN 0
    ELSE LET x == CHOOSE y \in S : TRUE IN f[x] + SumOver(f, S \ {x})

\* C1: no lost updates.  The registry holds, as a multiset, exactly the
\* values of the appends that have returned plus those pushed and still
\* inside their critical section; so once all N appends have returned its
\* length is the initial length (0) plus N and each value is in it once per
\* append.
NoLostUpdates ==
    /\ \A i \in 1..Len(numbers) : numbers[i] \in AppendValues
    /\ \A v \in AppendValues : CountIn(numbers, v) = completed[v] + InFlight(v)
    /\ ((\A t \in Tasks : pc[t] # "w_pushed")
          => Len(numbers) = SumOver(completed, AppendValues))

\* C1 witness: two appends, of different values, have both returned, the
\* second one after it found the first one's value in the registry.
TwoAppendsDone ==
    /\ out.event = "post"
    /\ out.seen # <<>>
    /\ \A t \in Tasks : pc[t] = "idle"
    /\ SumOver(completed, AppendValues) = 2
    /\ \A v \in AppendValues : completed[v] = 1

\* C2: the array an append returns is the registry as it stood just before
\* its own push, followed by its value, and it is the registry as it
\* stands when the append returns.
AppendReturnsOwnState ==
    out.event = "post" =>
        /\ out.json = Append(out.seen, ParseI32(out.body).val)
        /\ out.json = numbers
        /\ out.pushed = 1

\* C2 witness: an append returns while another append, queued behind it,
\* is handed the lock and a snapshot still waits.
AppendReturnedUnderContention ==
    /\ out.event = "post"
    /\ out.json # <<>>
    /\ \E u, v \in Tasks : pc[u] = "w_granted" /\ pc[v] = "wait_r"

\* C3: a snapshot is the registry as it stood when the snapshot got read
\* access, unchanged until it returns, and every step leaves the previous
\* registry as a prefix of the next one (nothing is deleted or reordered);
\* on an empty registry the snapshot is empty.
SnapshotConsistent ==
    [][ /\ IsPrefix(numbers, numbers')
        /\ out'.event = "get" =>
              /\ out'.json = out'.seen
              /\ out'.json = numbers'
              /\ (SumOver(completed', AppendValues) = 0 /\ wrHeld' = {}
                    => out'.json = <<>>) ]_vars

\* C3 witness: a snapshot of a non-empty registry returns while an append
\* that queued behind it is handed the lock.
SnapshotReturnedBeforeWriter ==
    /\ out.event = "get"
    /\ out.json # <<>>
    /\ \E u \in Tasks : pc[u] = "w_granted"

\* C4: while an append is inside its critical section (it owns the write
\* guard), no other append and no snapshot is inside theirs.
WriterExcludesAll ==
    \A t \in Tasks :
        InWriteCS(t) => \A u \in Tasks \ {t} : ~InWriteCS(u) /\ ~InReadCS(u)

\* C4 witness: an append has pushed and still owns the guard while a
\* snapshot and another append wait.
WriterInsideOthersWaiting ==
    \E t, u, v \in Tasks :
        pc[t] = "w_pushed" /\ pc[u] = "wait_r" /\ pc[v] = "wait_w"

\* C4, second half: two snapshots inside their read critical sections at
\* once (a reachable state, shown by the violation of its negation).
TwoReadersInside == Cardinality({t \in Tasks : InReadCS(t)}) >= 2
NeverTwoReadersInside == ~TwoReadersInside

\* C5: under the fairness of LiveSpec every request that asked for the
\* lock is through in the end, whatever requests keep arriving; and a
\* request is through only when its append has pushed and returned its
\* array, when its snapshot has returned, or when its client dropped it
\* while it was suspended.
NoStarvation ==
    /\ \A t \in Tasks : (pc[t] # "idle") ~> (pc[t] = "idle")
    /\ [][\A t \in Tasks :
            pc'[t] = "idle" /\ pc[t] # "idle" =>
                \/ pc[t] = "w_pushed" /\ out'.event = "post"
                \/ pc[t] \in ReadCS /\ out'.event = "get"
                \/ pc[t] \in Suspended /\ out'.event = "cancel"]_vars

\* C5 witness: an append waits for the lock while two snapshots are inside.
WriterWaitsBehindReaders ==
    \E t \in Tasks : pc[t] = "wait_w" /\ Cardinality(rdHeld) >= 2

\* An append that asked for the lock before t did and is still queued.
WriterQueuedAhead(t) ==
    \E i \in 1..Len(waiters) :
        pc[waiters[i]] = "wait_w" /\ i < Position(waiters, t)

\* C6 as stated: a snapshot waits only while some append is inside its
\* critical section.
ReaderWaitsOnlyForActiveWriter ==
    \A t \in Tasks : pc[t] = "wait_r" => \E u \in Tasks : InWriteCS(u)

\* C6 amended: a snapshot waits only while some append is inside its
\* critical section or is queued for the lock ahead of it.
ReaderWaitsOnlyForWriterAhead ==
    \A t \in Tasks :
        pc[t] = "wait_r" =>
            (\E u \in Tasks : InWriteCS(u)) \/ WriterQueuedAhead(t)

\* C6 witness: a snapshot waits behind a queued append while no append is
\* inside its critical section.
ReaderBehindQueuedWriter ==
    \E t \in Tasks :
        /\ pc[t] = "wait_r"
        /\ WriterQueuedAhead(t)
        /\ \A u \in Tasks : ~InWriteCS(u)

\* C7: the step that drops a request leaves the registry as it was (the
\* request's value was pushed never, and at most once in any case), and
\* leaves no guard owned and no queue entry held by a task that is not
\* inside a handler.
CancelIsAtomic ==
    [][ out'.event = "cancel" =>
          /\ out'.pushed \in {0, 1}
          /\ (out'.pushed = 0 => numbers' = numbers)
          /\ (out'.pushed = 1 =>
                CountIn(numbers', ParseI32(out'.body).val)
                  = CountIn(numbers, ParseI32(out'.body).val))
          /\ LockConsistent' ]_vars

\* C7 witness: an append was dropped after the lock had been handed to it.
GrantedAppendDropped ==
    out.event = "cancel" /\ out.at = "w_granted" /\ out.body # <<>>

\* C8: a malformed body is answered with 400 and no push; only a
\* well-formed body is answered with 200 and the array after the append.
MalformedBodyIs400 ==
    /\ out.event = "reject" =>
          /\ ParseI32(out.body).res # "ok"
          /\ out.status = 400
          /\ out.pushed = 0
    /\ out.event = "post" =>
          /\ ParseI32(out.body).res = "ok"
          /\ out.status = 200
          /\ out.json = numbers

IsOdd(n) == n % 2 = 1

\* C9: the health check always answers: 200 with status and message when
\* the probe succeeds, a 5xx when it fails.
HealthCheckAlwaysAnswers ==
    \A t \in Tasks :
        demo[t].kind = "health" =>
            /\ demo[t].responded
            /\ (demo[t].input = <<"ok">> =>
                  /\ demo[t].status = 200
                  /\ demo[t].jstatus # ""
                  /\ demo[t].message # "")
            /\ (demo[t].input # <<"ok">> =>
                  demo[t].status >= 500 /\ demo[t].status <= 599)

\* C10: for every i32 the lookup answers 200 with found = true exactly
\* when the number is odd, 404 with found = false exactly when it is even,
\* and the body's number is the path parameter.
OddIsFound ==
    \A t \in Tasks :
        (demo[t].kind = "lookup" /\ ParsePathI32(demo[t].input).ok) =>
            LET n == ParsePathI32(demo[t].input).val IN
            /\ demo[t].number = n
            /\ (IsOdd(n) <=> (demo[t].status = 200 /\ demo[t].found))
            /\ (~IsOdd(n) <=> (demo[t].status = 404 /\ ~demo[t].found))

====
